---------------------------- MODULE Spec2Model ----------------------------
(***************************************************************************)
(* A model of netdissect/upsample.py: the receptive-field composer         *)
(* (convconfigs, convconfig_scale_offset, sequence_scale_offset), the grid *)
(* builder (upsample_grid) and the resample wrapper (upsampler and its     *)
(* closure upsample_func).                                                 *)
(*                                                                         *)
(* Numbers.  The Python ints and floats of the source are modelled as      *)
(* exact rationals [n |-> numerator, d |-> denominator] in lowest terms    *)
(* with d > 0; floating-point rounding is not modelled.  d = 0 stands for  *)
(* a non-finite value (inf or nan).  Python's own "/" never produces one:  *)
(* it raises ZeroDivisionError, which DivRaises models.                    *)
(***************************************************************************)
EXTENDS Integers, Sequences, FiniteSets, TLC

VARIABLES
    \* receptive-field composer
    modulelist,     \* the list of modules handed to the composer
    composed,       \* the last composer call: [op, arg, value]
    \* grid builder
    gridArgs,       \* the arguments of the last upsample_grid call
    gridResult,     \* what that call produced: a grid or an exception
    \* resample wrapper
    wrapperOf,      \* caller (thread) -> the wrapper instance it calls
    created,        \* wrapper -> the grid upsample_grid built at creation
    grid,           \* wrapper -> the closure's nonlocal grid
    pc,             \* caller -> position inside upsample_func
    data,           \* caller -> the data argument of its call in progress
    tmp,            \* caller -> the grid object it has loaded / computed
    handed          \* caller -> what it passed to grid_sample / how it ended

vars == <<modulelist, composed, gridArgs, gridResult,
          wrapperOf, created, grid, pc, data, tmp, handed>>

composerVars == <<modulelist, composed>>
builderVars  == <<gridArgs, gridResult>>
wrapperVars  == <<wrapperOf, created, grid, pc, data, tmp, handed>>

----------------------------------------------------------------------------
(* Bounds of the model *)

MaxKernel   == 3    \* kernel sizes 1..MaxKernel
MaxStride   == 2    \* strides 1..MaxStride
MaxModules  == 2    \* arbitrary module lists up to this length
Depth       == 5    \* "five stride-2 reductions": a list repeating one
                    \* module may be this long
MaxSource   == 4    \* data_shape axes 1..MaxSource
MaxTarget   == 8    \* target_shape axes 1..MaxTarget
MaxInput    == 2    \* input_shape axes 1..MaxInput
MaxBatch    == 3    \* batch sizes 1..MaxBatch

----------------------------------------------------------------------------
(* Exact rational arithmetic *)

Abs(x) == IF x < 0 THEN -x ELSE x

RECURSIVE GCD(_, _)
GCD(a, b) == IF b = 0 THEN a ELSE GCD(b, a % b)

NonFinite == [n |-> 1, d |-> 0]

Rat(n, d) ==
    IF d = 0 THEN NonFinite
    ELSE LET g == GCD(Abs(n), Abs(d))
             s == IF d < 0 THEN -1 ELSE 1
         IN  [n |-> (s * n) \div g, d |-> (s * d) \div g]

RInt(i)    == [n |-> i, d |-> 1]
RAdd(x, y) == Rat(x.n * y.d + y.n * x.d, x.d * y.d)
RSub(x, y) == Rat(x.n * y.d - y.n * x.d, x.d * y.d)
RMul(x, y) == Rat(x.n * y.n, x.d * y.d)
IsFinite(x) == x.d # 0
RLess(x, y) == IsFinite(x) /\ IsFinite(y) /\ x.n * y.d < y.n * x.d
RLeq(x, y)  == IsFinite(x) /\ IsFinite(y) /\ x.n * y.d <= y.n * x.d

(* Python's "/" on ints and floats: a zero divisor raises ZeroDivisionError *)
(* instead of producing a value.                                            *)
DivRaises_never(x, y) == FALSE

DivRaises(x, y) == IsFinite(y) /\ y.n = 0

(* The quotient when the division does not raise. *)
TrueDiv(x, y) == Rat(x.n * y.d, x.d * y.n)

----------------------------------------------------------------------------
(* Modules and their convolution attributes.  An attribute of a module is  *)
(* absent, an int, or a (y, x) tuple of ints.                              *)

Absent      == [form |-> "absent", v |-> <<>>]
AnInt(i)    == [form |-> "int",    v |-> <<i>>]
ATuple(y,x) == [form |-> "tuple",  v |-> <<y, x>>]

Mod(k, d, s, p) == [kernel_size |-> k, dilation |-> d, stride |-> s, padding |-> p]

Kernels  == 1..MaxKernel
Strides  == 1..MaxStride
DilPads  == { <<1, 0>>, <<1, 1>>, <<2, 0>> }    \* (dilation, padding)

Modules ==
    \* convolution-like modules with int attributes
    { Mod(AnInt(k), AnInt(dp[1]), AnInt(s), AnInt(dp[2])) :
        k \in Kernels, s \in Strides, dp \in DilPads }
    \* a module with none of the attributes (an activation, say)
    \cup { Mod(Absent, Absent, Absent, Absent) }
    \* per-axis kernel sizes, per-axis strides
    \cup { Mod(ATuple(ky, kx), Absent, Absent, Absent) :
             ky \in {1, MaxKernel}, kx \in {1, MaxKernel} }
    \cup { Mod(AnInt(1), Absent, ATuple(1, MaxStride), AnInt(0)),
           Mod(Absent, Absent, ATuple(MaxStride, 1), Absent) }

ModuleLists ==
    UNION { [1..n -> Modules] : n \in 0..MaxModules }
    \cup { [i \in 1..n |-> m] : n \in 0..Depth, m \in Modules }

(* getattr(module, n, d), then (s if isinstance(s, tuple) else (s, s)) *)
AsPair(attr, default) ==
    IF attr.form = "tuple" THEN attr.v
    ELSE IF attr.form = "int" THEN <<attr.v[1], attr.v[1]>>
    ELSE <<default, default>>

(* settings of one module: ((ky,kx), (dy,dx), (sy,sx), (py,px)) *)
Settings(m) ==
    << AsPair(m.kernel_size, 1), AsPair(m.dilation, 1),
       AsPair(m.stride, 1), AsPair(m.padding, 0) >>

IdentitySettings == << <<1, 1>>, <<1, 1>>, <<1, 1>>, <<0, 0>> >>

(* zip over the unpacked settings: one (kernel, dilation, stride, padding) per axis *)
ZipSettings(st) == [a \in 1..2 |-> <<st[1][a], st[2][a], st[3][a], st[4][a]>>]

RECURSIVE FilteredConfigs(_)
FilteredConfigs(ml) ==
    IF Len(ml) = 0 THEN <<>>
    ELSE LET st == Settings(Head(ml))
         IN  IF st # IdentitySettings
               THEN <<ZipSettings(st)>> \o FilteredConfigs(Tail(ml))
               ELSE FilteredConfigs(Tail(ml))

(* list of zip over the unpacked result: the transpose; of an empty result it is empty *)
ZipStar(result) ==
    IF Len(result) = 0 THEN <<>>
    ELSE [a \in 1..2 |-> [i \in 1..Len(result) |-> result[i][a]]]

convconfigs(ml) == ZipStar(FilteredConfigs(ml))

(* the own term of one stage: (kernel - 1) * dilation / 2.0 - padding *)
OwnTerm_not_halved(cfg) == RSub(RInt((cfg[1] - 1) * cfg[2]), RInt(cfg[4]))

OwnTerm(cfg) ==
    RSub(TrueDiv(RInt((cfg[1] - 1) * cfg[2]), RInt(2)), RInt(cfg[4]))

(* one unwinding step of the recursion, given the result for the tail *)
ComposeStep_own_stride(cfg, rest) ==
    << RMul(rest[1], RInt(cfg[3])),
       RMul(RAdd(rest[2], OwnTerm(cfg)), RInt(cfg[3])) >>

ComposeStep(cfg, rest) ==
    << RMul(rest[1], RInt(cfg[3])),
       RAdd(RMul(rest[2], RInt(cfg[3])), OwnTerm(cfg)) >>

(* the same steps taken in pipeline order, first stage first *)
RECURSIVE ForwardFrom(_, _, _)
ForwardFrom(cc, i, acc) ==
    IF i > Len(cc) THEN acc
    ELSE ForwardFrom(cc, i + 1,
            << RMul(acc[1], RInt(cc[i][3])),
               RAdd(RMul(acc[2], RInt(cc[i][3])), OwnTerm(cc[i])) >>)

convconfig_scale_offset_forward(cc) == ForwardFrom(cc, 1, <<RInt(1), RInt(0)>>)

RECURSIVE convconfig_scale_offset(_)
convconfig_scale_offset(cc) ==
    IF Len(cc) = 0 THEN <<RInt(1), RInt(0)>>
    ELSE ComposeStep(cc[1], convconfig_scale_offset(Tail(cc)))

sequence_scale_offset(ml) ==
    LET cc == convconfigs(ml)
    IN  [a \in 1..Len(cc) |-> convconfig_scale_offset(cc[a])]

----------------------------------------------------------------------------
(* The composer as a state machine: the module list is the input, drawn   *)
(* in Init; the actions apply the two composer functions to it.           *)

NoCall == [op |-> "none", arg |-> <<>>, value |-> <<>>]

(* the per-axis list a caller of convconfig_scale_offset passes: the      *)
(* settings of every module on one axis, identity stages included         *)
AxisList(ml, a) == [i \in 1..Len(ml) |-> ZipSettings(Settings(ml[i]))[a]]

CallSequenceScaleOffset ==
    /\ composed = NoCall
    /\ composed' = [op    |-> "sequence_scale_offset",
                    arg   |-> convconfigs(modulelist),
                    value |-> sequence_scale_offset(modulelist)]
    /\ UNCHANGED <<modulelist, builderVars, wrapperVars>>

CallConvconfigScaleOffset(a) ==
    /\ composed = NoCall
    /\ composed' = [op    |-> "convconfig_scale_offset",
                    arg   |-> <<AxisList(modulelist, a)>>,
                    value |-> <<convconfig_scale_offset(AxisList(modulelist, a))>>]
    /\ UNCHANGED <<modulelist, builderVars, wrapperVars>>

----------------------------------------------------------------------------
(* The grid builder *)

None    == [some |-> FALSE, v |-> <<>>]
Some(x) == [some |-> TRUE,  v |-> x]

Axes == 1..2

(* what a call of upsample_grid ends with: exc is "none" and grid the      *)
(* returned tensor, or exc is the exception raised, at the step `at`;      *)
(* scale and offset are the locals of that name at that moment.            *)
Outcome(exc, at, scale, offset, g) ==
    [exc |-> exc, at |-> at, scale |-> scale, offset |-> offset, grid |-> g]

(* lines 110-111 *)
TargetShape(args) ==
    IF args.target_shape.some THEN args.target_shape.v ELSE args.data_shape

(* lines 113-116: scale = float(ts) / ds, offset = 0.0 *)
DefaultScale_inverse(ts, ds) == [a \in Axes |-> TrueDiv(RInt(ds[a]), RInt(ts[a]))]

DefaultScale(ts, ds) == [a \in Axes |-> TrueDiv(RInt(ts[a]), RInt(ds[a]))]

DefaultOffset == [a \in Axes |-> RInt(0)]

(* lines 121-124: v * (ts - 1) / (ns - 1) on every axis *)
RescaleRaises(v, ns, ts) ==
    \E a \in Axes : DivRaises(RMul(v[a], RInt(ts[a] - 1)), RInt(ns[a] - 1))

Rescale(v, ns, ts) ==
    [a \in Axes |-> TrueDiv(RMul(v[a], RInt(ts[a] - 1)), RInt(ns[a] - 1))]

(* lines 126-128, one axis:  (arange(ts) - o) * (2 / (s * (ss - 1))) - 1 *)
NormDivisor(s, ss) == RMul(s, RInt(ss - 1))

NormRaises(scale, ds) ==
    \E a \in Axes : DivRaises(RInt(2), NormDivisor(scale[a], ds[a]))

AxisCoords_half_pixel(ts, ss, s, o) ==
    [i \in 1..ts |->
        RSub(RMul(RSub(RAdd(RInt(i - 1), Rat(1, 2)), o),
                  TrueDiv(RInt(2), NormDivisor(s, ss))),
             RInt(1))]

AxisCoords(ts, ss, s, o) ==
    [i \in 1..ts |->
        RSub(RMul(RSub(RInt(i - 1), o), TrueDiv(RInt(2), NormDivisor(s, ss))),
             RInt(1))]

(* lines 130-132: stack (tx, ty) on the last dimension, batch dimension 1 *)
StackGrid(ty, tx, device) ==
    [batch  |-> 1,
     device |-> device,
     coords |-> [i \in 1..Len(ty) |-> [j \in 1..Len(tx) |-> <<tx[j], ty[i]>>]]]

(* lines 125-133, with scale and offset settled *)
Normalize(args, scale, offset, device) ==
    LET ts == TargetShape(args)
        ds == args.data_shape
    IN  IF NormRaises(scale, ds)
          THEN Outcome("ZeroDivisionError", "normalize", scale, offset, <<>>)
          ELSE Outcome("none", "return", scale, offset,
                       StackGrid(AxisCoords(ts[1], ds[1], scale[1], offset[1]),
                                 AxisCoords(ts[2], ds[2], scale[2], offset[2]),
                                 device))

upsample_grid(args, device) ==
    LET ts == TargetShape(args)
        ds == args.data_shape
        so == args.scale_offset
    IN  IF ~so.some
          THEN Normalize(args, DefaultScale(ts, ds), DefaultOffset, device)
        ELSE IF Len(so.v) = 0
          \* scale, offset = (v for v in zip()) has nothing to unpack
          THEN Outcome("ValueError", "unpack", <<>>, <<>>, <<>>)
        ELSE LET scale  == [a \in Axes |-> so.v[a][1]]
                 offset == [a \in Axes |-> so.v[a][2]]
             IN  IF ~args.input_shape.some
                   THEN Normalize(args, scale, offset, device)
                 ELSE IF RescaleRaises(scale, args.input_shape.v, ts)
                   THEN Outcome("ZeroDivisionError", "rescale", scale, offset, <<>>)
                 ELSE Normalize(args,
                                Rescale(scale, args.input_shape.v, ts),
                                Rescale(offset, args.input_shape.v, ts),
                                device)

Shapes(m) == { <<y, x>> : y \in 1..m, x \in 1..m }

(* supplied per-axis (scale, offset): what the composer returns for no     *)
(* stage and for one unpadded stride-2 stage of kernel 2                   *)
AxisScaleOffsets == { <<RInt(1), RInt(0)>>, <<RInt(2), Rat(1, 2)>> }

BuilderArgs ==
    [ data_shape   : Shapes(MaxSource),
      target_shape : {None} \cup { Some(t) : t \in Shapes(MaxTarget) },
      input_shape  : {None} \cup { Some(n) : n \in Shapes(MaxInput) },
      scale_offset : {None, Some(<<>>)}
                     \cup { Some(<<y, x>>) : y \in AxisScaleOffsets,
                                             x \in AxisScaleOffsets } ]

NotCalled == Outcome("not called", "", <<>>, <<>>, <<>>)
NoArgs    == [data_shape |-> <<>>, target_shape |-> None,
              input_shape |-> None, scale_offset |-> None]

CallUpsampleGrid ==
    /\ gridResult = NotCalled
    /\ gridArgs # NoArgs
    /\ gridResult' = upsample_grid(gridArgs, "cpu")
    /\ UNCHANGED <<gridArgs, composerVars, wrapperVars>>

----------------------------------------------------------------------------
(* The resample wrapper: upsampler builds the grid once; the closure      *)
(* upsample_func adapts the captured grid to each call's data.  A caller   *)
(* is a thread running upsample_func; between two reads or writes of the   *)
(* nonlocal grid another caller of the same wrapper may run.               *)

Callers  == {"t1", "t2"}
Wrappers == {"w1", "w2"}
Devices  == {"cpu", "cuda"}
Batches  == 1..MaxBatch

(* lines 12-16 *)
upsampler(args, convolutions, device) ==
    IF convolutions.some /\ args.scale_offset.some
      THEN Outcome("AssertionError", "assert", <<>>, <<>>, <<>>)
      ELSE upsample_grid(
             [args EXCEPT !.scale_offset =
                 IF convolutions.some
                   THEN Some(sequence_scale_offset(convolutions.v))
                   ELSE args.scale_offset],
             device)

Stride2 == Mod(AnInt(2), AnInt(1), AnInt(2), AnInt(0))

(* the wrappers the callers use: a plain 2x upsampler, and one aligned to  *)
(* a pipeline of one stride-2 stage                                        *)
WrapperConfigs ==
    { [args |-> [data_shape |-> <<2, 2>>, target_shape |-> Some(<<4, 4>>),
                 input_shape |-> None, scale_offset |-> None],
       convolutions |-> None],
      [args |-> [data_shape |-> <<2, 2>>, target_shape |-> Some(<<3, 3>>),
                 input_shape |-> Some(<<5, 5>>), scale_offset |-> None],
       convolutions |-> Some(<<Stride2>>)] }

(* line 20 *)
DeviceDiffers(g, x) == x.device # g.device

(* line 21: grid.to(data.device) *)
To(g, device) == [g EXCEPT !.device = device]

(* line 23 *)
BatchDiffers_never(g, x) == FALSE

BatchDiffers(g, x) == g.batch # x.batch

(* line 24: Tensor.expand may only change a dimension of size 1 *)
CanExpand(g, n) == g.batch = 1 \/ g.batch = n

Expand(g, n) == [g EXCEPT !.batch = n]

NoGrid   == [batch |-> 0, device |-> "", coords |-> <<>>]
NoData   == [batch |-> 0, device |-> ""]
NotYet   == [called |-> FALSE, exc |-> "none", grid |-> NoGrid]
Passed(g) == [called |-> TRUE, exc |-> "none", grid |-> g]
Failed(e) == [called |-> FALSE, exc |-> e, grid |-> NoGrid]

W(t) == wrapperOf[t]

(* a caller enters upsample_func(data) *)
Call(t, b, d) ==
    /\ pc[t] = "idle"
    /\ pc' = [pc EXCEPT ![t] = "L20"]
    /\ data' = [data EXCEPT ![t] = [batch |-> b, device |-> d]]
    /\ handed' = [handed EXCEPT ![t] = NotYet]
    /\ UNCHANGED <<wrapperOf, created, grid, tmp, composerVars, builderVars>>

(* line 20: if data.device != grid.device *)
CheckDevice(t) ==
    /\ pc[t] = "L20"
    /\ pc' = [pc EXCEPT ![t] = IF DeviceDiffers(grid[W(t)], data[t])
                                 THEN "L21" ELSE "L23"]
    /\ UNCHANGED <<wrapperOf, created, grid, data, tmp, handed,
                   composerVars, builderVars>>

(* line 21, right-hand side: grid.to(data.device) *)
MoveLoad(t) ==
    /\ pc[t] = "L21"
    /\ tmp' = [tmp EXCEPT ![t] = To(grid[W(t)], data[t].device)]
    /\ pc' = [pc EXCEPT ![t] = "L21store"]
    /\ UNCHANGED <<wrapperOf, created, grid, data, handed,
                   composerVars, builderVars>>

(* line 21, the assignment to the nonlocal grid *)
MoveStore(t) ==
    /\ pc[t] = "L21store"
    /\ grid' = [grid EXCEPT ![W(t)] = tmp[t]]
    /\ tmp' = [tmp EXCEPT ![t] = NoGrid]
    /\ pc' = [pc EXCEPT ![t] = "L23"]
    /\ UNCHANGED <<wrapperOf, created, data, handed, composerVars, builderVars>>

(* line 23: if grid.shape[0] != data.shape[0] *)
CheckBatch(t) ==
    /\ pc[t] = "L23"
    /\ pc' = [pc EXCEPT ![t] = IF BatchDiffers(grid[W(t)], data[t])
                                 THEN "L24" ELSE "L25"]
    /\ UNCHANGED <<wrapperOf, created, grid, data, tmp, handed,
                   composerVars, builderVars>>

(* line 24, right-hand side: grid.expand(...) succeeds *)
ExpandLoad(t) ==
    /\ pc[t] = "L24"
    /\ CanExpand(grid[W(t)], data[t].batch)
    /\ tmp' = [tmp EXCEPT ![t] = Expand(grid[W(t)], data[t].batch)]
    /\ pc' = [pc EXCEPT ![t] = "L24store"]
    /\ UNCHANGED <<wrapperOf, created, grid, data, handed,
                   composerVars, builderVars>>

(* line 24, right-hand side: grid.expand(...) raises RuntimeError, which   *)
(* leaves upsample_func                                                    *)
ExpandRaise(t) ==
    /\ pc[t] = "L24"
    /\ ~CanExpand(grid[W(t)], data[t].batch)
    /\ handed' = [handed EXCEPT ![t] = Failed("RuntimeError")]
    /\ pc' = [pc EXCEPT ![t] = "idle"]
    /\ UNCHANGED <<wrapperOf, created, grid, data, tmp,
                   composerVars, builderVars>>

(* line 24, the assignment to the nonlocal grid *)
ExpandStore(t) ==
    /\ pc[t] = "L24store"
    /\ grid' = [grid EXCEPT ![W(t)] = tmp[t]]
    /\ tmp' = [tmp EXCEPT ![t] = NoGrid]
    /\ pc' = [pc EXCEPT ![t] = "L25"]
    /\ UNCHANGED <<wrapperOf, created, data, handed, composerVars, builderVars>>

(* lines 25-26: grid_sample(data, grid, ...) gets the nonlocal grid as it  *)
(* is now                                                                  *)
Sample(t) ==
    /\ pc[t] = "L25"
    /\ handed' = [handed EXCEPT ![t] = Passed(grid[W(t)])]
    /\ pc' = [pc EXCEPT ![t] = "idle"]
    /\ UNCHANGED <<wrapperOf, created, grid, data, tmp,
                   composerVars, builderVars>>

----------------------------------------------------------------------------
(* Specifications.  Each part of the program is checked on its own; the   *)
(* variables of the other parts stay at rest.                              *)

ComposerAtRest == modulelist = <<>> /\ composed = NoCall
BuilderAtRest  == gridArgs = NoArgs /\ gridResult = NotCalled
WrapperAtRest  ==
    /\ wrapperOf = <<>> /\ created = <<>> /\ grid = <<>>
    /\ pc = <<>> /\ data = <<>> /\ tmp = <<>> /\ handed = <<>>

InitComposer ==
    /\ modulelist \in ModuleLists
    /\ composed = NoCall
    /\ BuilderAtRest /\ WrapperAtRest

NextComposer ==
    \/ CallSequenceScaleOffset
    \/ \E a \in Axes : CallConvconfigScaleOffset(a)

SpecComposer == InitComposer /\ [][NextComposer]_vars

InitBuilder ==
    /\ gridArgs \in BuilderArgs
    /\ gridResult = NotCalled
    /\ ComposerAtRest /\ WrapperAtRest

NextBuilder == CallUpsampleGrid

SpecBuilder == InitBuilder /\ [][NextBuilder]_vars

OwnWrappers    == [t \in Callers |-> IF t = "t1" THEN "w1" ELSE "w2"]
SharedWrapper  == [t \in Callers |-> "w1"]

InitClosures(assignment) ==
    /\ wrapperOf = assignment
    /\ \E cfg \in WrapperConfigs, dev \in Devices :
          created = [w \in Wrappers |->
                        upsampler(cfg.args, cfg.convolutions, dev).grid]
    /\ grid = created
    /\ pc = [t \in Callers |-> "idle"]
    /\ data = [t \in Callers |-> NoData]
    /\ tmp = [t \in Callers |-> NoGrid]
    /\ handed = [t \in Callers |-> NotYet]
    /\ ComposerAtRest /\ BuilderAtRest

NextWrapper ==
    \E t \in Callers :
        \/ \E b \in Batches, d \in Devices : Call(t, b, d)
        \/ CheckDevice(t)
        \/ MoveLoad(t)
        \/ MoveStore(t)
        \/ CheckBatch(t)
        \/ ExpandLoad(t)
        \/ ExpandRaise(t)
        \/ ExpandStore(t)
        \/ Sample(t)

(* callers that may share one wrapper, or hold one each *)
InitWrapper == \E f \in {OwnWrappers, SharedWrapper} : InitClosures(f)

SpecWrapper == InitWrapper /\ [][NextWrapper]_vars

(* every wrapper has one caller: its calls come one after the other *)
InitSequential == InitClosures(OwnWrappers)

SpecSequential == InitSequential /\ [][NextWrapper]_vars

----------------------------------------------------------------------------
(* Properties of the receptive-field composer (SpecComposer) *)

Called == composed.op # "none"

(* the per-axis lists the call composed, and what it returned for each *)
ComposedAxes == 1..Len(composed.value)

Contribution(cfg) == Rat((cfg[1] - 1) * cfg[2] - 2 * cfg[4], 2)

(* the accumulation of the specification: from (1, 0), visiting the stages *)
(* from the last back to the first                                         *)
RECURSIVE AccumulateFrom(_, _, _)
AccumulateFrom(cc, i, acc) ==
    IF i = 0 THEN acc
    ELSE AccumulateFrom(cc, i - 1,
            << RMul(acc[1], RInt(cc[i][3])),
               RAdd(RMul(acc[2], RInt(cc[i][3])), Contribution(cc[i])) >>)

ReverseAccumulation(cc) == AccumulateFrom(cc, Len(cc), <<RInt(1), RInt(0)>>)

\* C1: convconfig_scale_offset returns, for every per-axis stage list, the
\* result of the reverse accumulation: from (1, 0), last stage first,
\* scale := scale * stride, offset := offset * stride + (kernel-1)*dilation/2 - padding.
C1_ReverseAccumulation ==
    Called => \A a \in ComposedAxes :
                 composed.value[a] = ReverseAccumulation(composed.arg[a])

\* a list of stages whose order matters has been composed
C1_Witness ==
    /\ composed.op = "convconfig_scale_offset"
    /\ Len(composed.arg[1]) >= 2
    /\ composed.arg[1][1][3] = 2
    /\ composed.arg[1][1][1] = 1
    /\ composed.arg[1][2][1] = 3
    /\ composed.value[1] # convconfig_scale_offset_forward(composed.arg[1])

RECURSIVE StrideProduct(_, _, _)
StrideProduct(cc, lo, hi) ==
    IF lo > hi THEN 1 ELSE cc[lo][3] * StrideProduct(cc, lo + 1, hi)

(* every contribution scaled by the strides of the stages before it *)
RECURSIVE EarlierSum(_, _)
EarlierSum(cc, i) ==
    IF i > Len(cc) THEN RInt(0)
    ELSE RAdd(RMul(Contribution(cc[i]), RInt(StrideProduct(cc, 1, i - 1))),
              EarlierSum(cc, i + 1))

OffsetScaledByEarlier(cc) == EarlierSum(cc, 1)

(* every contribution scaled by the strides of the stages after it *)
RECURSIVE LaterSum(_, _)
LaterSum(cc, i) ==
    IF i > Len(cc) THEN RInt(0)
    ELSE RAdd(RMul(Contribution(cc[i]), RInt(StrideProduct(cc, i + 1, Len(cc)))),
              LaterSum(cc, i + 1))

OffsetScaledByLater(cc) == LaterSum(cc, 1)

\* C2 as stated: in the returned offset each stage's contribution is scaled
\* by the stride of every stage after it (closer to the output), and by no
\* other stride.
C2_ScaledByLaterStrides ==
    Called => \A a \in ComposedAxes :
                 composed.value[a][2] = OffsetScaledByLater(composed.arg[a])

\* C2 amended: in the returned offset each stage's contribution is scaled by
\* the stride of every stage before it in the pipeline (closer to the
\* input), and by no other stride.
C2_ScaledByEarlierStrides ==
    Called => \A a \in ComposedAxes :
                 composed.value[a][2] = OffsetScaledByEarlier(composed.arg[a])

\* two stages composed where scaling by the later and by the earlier strides differ
C2_Witness ==
    /\ Called
    /\ \E a \in ComposedAxes :
          /\ Len(composed.arg[a]) >= 2
          /\ OffsetScaledByLater(composed.arg[a]) # OffsetScaledByEarlier(composed.arg[a])
          /\ composed.value[a][2] = OffsetScaledByEarlier(composed.arg[a])

NoStage(ml) == \A i \in 1..Len(ml) : Settings(ml[i]) = IdentitySettings

\* C4: for an empty stage list the result is (scale 1, offset 0) on each of
\* the two axes, from convconfig_scale_offset and from sequence_scale_offset,
\* also when the module list holds only identity stages.
C4_EmptyListIsUnit ==
    /\ (composed.op = "convconfig_scale_offset" /\ Len(composed.arg[1]) = 0)
          => composed.value = << <<RInt(1), RInt(0)>> >>
    /\ (composed.op = "sequence_scale_offset" /\ NoStage(modulelist))
          => composed.value = << <<RInt(1), RInt(0)>>, <<RInt(1), RInt(0)>> >>

(* the part of C4 the code does meet: the per-axis composer on an empty list *)
EmptyAxisListIsUnit ==
    (composed.op = "convconfig_scale_offset" /\ Len(composed.arg[1]) = 0)
        => composed.value = << <<RInt(1), RInt(0)>> >>

(* the part of C9 the composer meets: a product of positive strides *)
ComposerScalePositive ==
    Called => \A a \in ComposedAxes : RLess(RInt(0), composed.value[a][1])

FiveStride2(k) == [i \in 1..Depth |-> <<k, 1, 2, 0>>]

\* C8 as stated: five stages of stride 2, padding 0, dilation 1, kernel k
\* give scale 32 and a nonzero offset, the accumulation of (k-1)/2 over the
\* five stages (31 for kernel 3).
C8_FiveStride2Nonzero ==
    Called => \A a \in ComposedAxes : \A k \in Kernels :
        composed.arg[a] = FiveStride2(k) =>
            /\ composed.value[a][1] = RInt(32)
            /\ composed.value[a][2] = Rat(31 * (k - 1), 2)
            /\ composed.value[a][2] # RInt(0)

\* C8 amended: they give scale 32 and offset 31*(k-1)/2, the accumulation of
\* (k-1)/2 over the five stages; it is 31 for kernel 3, nonzero for every
\* kernel k >= 2 and zero for kernel 1.
C8_FiveStride2ClosedForm ==
    Called => \A a \in ComposedAxes : \A k \in Kernels :
        composed.arg[a] = FiveStride2(k) =>
            /\ composed.value[a][1] = RInt(32)
            /\ composed.value[a][2] = Rat(31 * (k - 1), 2)
            /\ (composed.value[a][2] # RInt(0)) <=> (k >= 2)
            /\ (k = 3) => composed.value[a][2] = RInt(31)

\* five unpadded stride-2 stages of kernel 3 composed through the module list
C8_Witness ==
    /\ composed.op = "sequence_scale_offset"
    /\ Len(modulelist) = Depth
    /\ composed.arg = <<FiveStride2(3), FiveStride2(3)>>
    /\ composed.value = << <<RInt(32), RInt(31)>>, <<RInt(32), RInt(31)>> >>

----------------------------------------------------------------------------
(* Properties of the grid builder (SpecBuilder) *)

Built    == gridResult # NotCalled
Returned == Built /\ gridResult.exc = "none"

DefaultPath == ~gridArgs.scale_offset.some
PerAxisPath == gridArgs.scale_offset.some /\ Len(gridArgs.scale_offset.v) = 2
RescalePath == PerAxisPath /\ gridArgs.input_shape.some

SourceSize(a)   == gridArgs.data_shape[a]
TargetSize(a)   == TargetShape(gridArgs)[a]
OriginalSize(a) == gridArgs.input_shape.v[a]

(* the coordinate the returned grid holds for target index t of axis a:    *)
(* rows are axis 1 and sit in the second component, columns are axis 2 and *)
(* sit in the first                                                        *)
Coord(a, t) ==
    IF a = 1 THEN gridResult.grid.coords[t + 1][1][2]
             ELSE gridResult.grid.coords[1][t + 1][1]

SomeNonFinite ==
    \E i \in 1..TargetSize(1), j \in 1..TargetSize(2), c \in 1..2 :
        ~IsFinite(gridResult.grid.coords[i][j][c])

(* a size-1 axis that makes upsample_grid divide by zero *)
DividesByZero ==
    \/ (DefaultPath \/ PerAxisPath) /\ \E a \in Axes : SourceSize(a) = 1
    \/ RescalePath /\ \E a \in Axes : OriginalSize(a) = 1

\* C5 as stated: with a source_shape axis of size 1, or with scale_offset
\* and an original_shape axis of size 1, the division by zero raises no
\* error and propagates as a non-finite coordinate in the returned grid.
C5_NonFiniteGrid ==
    (Built /\ DividesByZero) => (Returned /\ SomeNonFinite)

\* C5 amended: in those cases (scale_offset, when given, holding one pair
\* per axis) the division by zero is neither caught nor handled by
\* upsample_grid: it leaves the call as a ZeroDivisionError and no grid is
\* returned.
C5_ZeroDivisionError ==
    (Built /\ DividesByZero) =>
        /\ gridResult.exc = "ZeroDivisionError"
        /\ gridResult.at \in {"rescale", "normalize"}
        /\ gridResult.grid = <<>>

\* the two cases as they happen: a one-pixel original axis in the rescaling,
\* a one-pixel source axis in the normalization
C5_WitnessOriginal ==
    /\ Built /\ RescalePath
    /\ \E a \in Axes : OriginalSize(a) = 1
    /\ \A a \in Axes : SourceSize(a) >= 2
    /\ gridResult.exc = "ZeroDivisionError" /\ gridResult.at = "rescale"

C5_Witness ==
    /\ Built /\ DefaultPath
    /\ \E a \in Axes : SourceSize(a) = 1
    /\ gridResult.exc = "ZeroDivisionError" /\ gridResult.at = "normalize"

DefaultCase == Returned /\ DefaultPath /\ \A a \in Axes : SourceSize(a) >= 2

\* C6 as stated: with scale_offset omitted, scale = target_size/source_size
\* and offset = 0, and for source axes >= 2 target index 0 gets -1, target
\* index target_size-1 gets +1 and every coordinate lies in [-1, 1].
C6_FullExtent ==
    DefaultCase => \A a \in Axes :
        /\ gridResult.scale[a] = Rat(TargetSize(a), SourceSize(a))
        /\ gridResult.offset[a] = RInt(0)
        /\ Coord(a, 0) = RInt(-1)
        /\ Coord(a, TargetSize(a) - 1) = RInt(1)
        /\ \A t \in 0..(TargetSize(a) - 1) :
              RLeq(RInt(-1), Coord(a, t)) /\ RLeq(Coord(a, t), RInt(1))

\* C6 amended: with scale_offset omitted, scale = target_size/source_size
\* and offset = 0, and for source axes >= 2 target index t gets
\* 2*t*source_size/(target_size*(source_size-1)) - 1: index 0 gets -1 and no
\* coordinate is below -1; index target_size-1 gets +1 only when
\* target_size = source_size, more than +1 when target_size > source_size
\* and less when target_size < source_size.
C6_DefaultMapping ==
    DefaultCase => \A a \in Axes :
        LET ts   == TargetSize(a)
            ss   == SourceSize(a)
            last == Coord(a, ts - 1)
        IN  /\ gridResult.scale[a] = Rat(ts, ss)
            /\ gridResult.offset[a] = RInt(0)
            /\ \A t \in 0..(ts - 1) :
                  /\ Coord(a, t) = RSub(Rat(2 * t * ss, ts * (ss - 1)), RInt(1))
                  /\ RLeq(RInt(-1), Coord(a, t))
            /\ Coord(a, 0) = RInt(-1)
            /\ (last = RInt(1)) <=> (ts = ss)
            /\ RLess(RInt(1), last) <=> (ts > ss)
            /\ RLess(last, RInt(1)) <=> (ts < ss)

\* a (4, 4) source upsampled to (8, 8): the last row lies beyond +1
C6_Witness ==
    /\ DefaultCase
    /\ gridArgs.data_shape = <<4, 4>>
    /\ TargetShape(gridArgs) = <<8, 8>>
    /\ Coord(1, 0) = RInt(-1)
    /\ Coord(1, 7) = Rat(4, 3)

\* C7: with default scale_offset and target_size = f * source_size
\* (source_size >= 2; f = 2 in the example, f = 1 for the identity resample)
\* the coordinate at target index f*j is exactly 2*j/(source_size-1) - 1, the
\* normalized coordinate of source pixel j, for every j in 0..source_size-1.
C7_SubsampledGridIsIdentity ==
    DefaultCase => \A a \in Axes : \A f \in 1..MaxTarget :
        TargetSize(a) = f * SourceSize(a) =>
            \A j \in 0..(SourceSize(a) - 1) :
                Coord(a, f * j) = RSub(Rat(2 * j, SourceSize(a) - 1), RInt(1))

\* the (4, 4) -> (8, 8) grid: row 6 holds the coordinate +1 of source row 3
C7_Witness ==
    /\ DefaultCase
    /\ gridArgs.data_shape = <<4, 4>>
    /\ gridArgs.target_shape = Some(<<8, 8>>)
    /\ Coord(1, 6) = RInt(1)
    /\ Coord(2, 2) = Rat(-1, 3)

\* C9: every per-axis scale the grid builder works with is strictly positive,
\* defaulted or supplied and rescaled, for all shapes of positive integers.
C9_ScalePositive ==
    (Built /\ gridResult.at \in {"normalize", "return"}) =>
        \A a \in Axes : RLess(RInt(0), gridResult.scale[a])

----------------------------------------------------------------------------
(* Properties of the resample wrapper (SpecSequential, SpecWrapper) *)

Finished(t) == pc[t] = "idle" /\ data[t] # NoData

(* the call of t passed grid_sample a grid fitting its data *)
FitsData(t) ==
    /\ handed[t].called
    /\ handed[t].grid.batch = data[t].batch
    /\ handed[t].grid.device = data[t].device

SameCoordinates(t) == handed[t].grid.coords = created[W(t)].coords

\* C3: for any sequence of calls to one wrapper with arbitrary batch sizes
\* and devices, every call succeeds and passes grid_sample a grid whose batch
\* size and device are those of the data and whose coordinates are those of
\* the grid built at creation.
C3_EveryCallSucceeds ==
    \A t \in Callers :
        Finished(t) => (handed[t].exc = "none" /\ FitsData(t) /\ SameCoordinates(t))

(* the part of C3 the code does meet: a call that reaches grid_sample on a *)
(* wrapper of its own passes a grid that fits, with the coordinates built  *)
(* at creation                                                             *)
PassedGridFits ==
    \A t \in Callers :
        handed[t].called => (FitsData(t) /\ SameCoordinates(t))

(* t passed grid_sample a grid of another batch size than its data *)
Mismatched(t) ==
    /\ handed[t].called
    /\ handed[t].grid.batch # data[t].batch

Shares(t) == \E u \in Callers \ {t} : W(u) = W(t)

\* C10: a call can pass grid_sample a grid whose batch size differs from its
\* own data's only when another caller uses the same wrapper; no such state
\* is reachable when each caller holds its own wrapper.
C10_MismatchOnlyWhenShared ==
    \A t \in Callers : Mismatched(t) => Shares(t)

\* two callers of one wrapper with different batch sizes: one has passed a
\* grid broadcast for the other
C10_Witness ==
    \E t \in Callers, u \in Callers :
        /\ t # u /\ W(t) = W(u)
        /\ data[t].batch # data[u].batch
        /\ Mismatched(t)
        /\ handed[t].grid.batch = data[u].batch

============================================================================
